---- MODULE Spec2Model ----
(***************************************************************************)
(* Model of the auths application: the User and Technicien tables          *)
(* (auths/models.py) and the admin surfaces over them (auths/admin.py).    *)
(*                                                                         *)
(* The database is two tables, users and techs, keyed by primary key.      *)
(* Each request of Requests works on its own in-memory Technicien instance *)
(* (insts[r]) that carries its own copy of the owning User row, taken when *)
(* the instance was built or loaded; Technicien.save writes that copy back *)
(* before it writes the Technicien row.  The two writes are two steps,     *)
(* each committed on its own, and the steps of other requests, the writes  *)
(* of another save among them, may fall between them.  lastOp records      *)
(* which operation the last step was, by which request, and how it ended.  *)
(***************************************************************************)
EXTENDS Integers, Sequences, FiniteSets, TLC

VARIABLES users, techs, nextUserId, nextTechId, insts, lastOp, obj, display

vars == <<users, techs, nextUserId, nextTechId, insts, lastOp, obj, display>>
dbvars == <<users, techs, nextUserId, nextTechId, insts, lastOp>>
nomvars == <<obj, display>>

(* Bounds of the model. *)
MaxUsers == 2
MaxTechs == 2
MaxNameLen == 2

UserIds == 1..MaxUsers
TechIds == 1..MaxTechs
(* The requests that hold a Technicien instance at the same time. *)
Requests == {"A", "B"}
(* A single request at a time, for the specifications whose claims are not
   about overlapping saves. *)
OneRequest == {"A"}
EmailList == <<"a@x.io", "b@x.io", "c@x.io">>
Emails == {EmailList[i] : i \in 1..Len(EmailList)}
UsernameList == <<"u1", "u2", "u3">>
Usernames == {UsernameList[i] : i \in 1..Len(UsernameList)}

(***************************************************************************)
(* Rows.                                                                   *)
(***************************************************************************)
UserRow == [email : Emails, username : Usernames, is_staff : BOOLEAN,
            is_active : BOOLEAN, is_superuser : BOOLEAN]

TechnicienRow == [user_id : UserIds, disponibilite : BOOLEAN]

NoInstance == [pk |-> -1, pc |-> "ready"]
(* What the last request was: the operation, how it ended, the user and the
   Technicien keys it was about, and for a bulk action the count it reported,
   the number of rows whose value it changed and whether it repeats the
   request before it; for a save, the owner's stored staff flag before it. *)
Op(o, r, u) == [op |-> o, result |-> r, uid |-> u, sel |-> {}, count |-> 0,
                changed |-> 0, repeated |-> FALSE, was_staff |-> FALSE,
                req |-> "-"]

(* The same for a step of request q on its instance. *)
ReqOp(o, r, u, q) == [Op(o, r, u) EXCEPT !.req = q]

NoOp == Op("init", "ok", 0)

(* The in-memory copy of a stored User row, as a query returns it. *)
UserObject(us, u) == [id |-> u, email |-> us[u].email,
                      username |-> us[u].username,
                      is_staff |-> us[u].is_staff,
                      is_active |-> us[u].is_active,
                      is_superuser |-> us[u].is_superuser]

(* The row Model.save writes for an in-memory User: every field of it. *)
RowOfUser(o) == [email |-> o.email, username |-> o.username,
                 is_staff |-> o.is_staff,
                 is_active |-> o.is_active, is_superuser |-> o.is_superuser]

(* Model.save on a row with a primary key: UPDATE, and INSERT when no row
   has that key. *)
Upsert(table, pk, row) ==
    [k \in (DOMAIN table) \cup {pk} |-> IF k = pk THEN row ELSE table[k]]

Remove(table, pks) == [k \in (DOMAIN table) \ pks |-> table[k]]

(* Mutant: the email column without its unique constraint. *)
EmailNeverTaken(us, u, e) == FALSE

(* unique=True on User.email: another row already holds the email. *)
EmailTaken(us, u, e) == \E k \in DOMAIN us : k # u /\ us[k].email = e

(* AbstractUser.username is unique too: another row holds the username. *)
UsernameTaken(us, u, n) == \E k \in DOMAIN us : k # u /\ us[k].username = n

(* Writing row as the row of user u raises IntegrityError. *)
UserRowRefused(us, u, row) ==
    EmailTaken(us, u, row.email) \/ UsernameTaken(us, u, row.username)

(* OneToOneField: another Technicien row already refers to the user. *)
OwnerTaken(ts, t, u) == \E k \in DOMAIN ts : k # t /\ ts[k].user_id = u

(* Mutant: the owner is deleted without its Technicien rows. *)
NoCascade(ts, u) == {}

(* on_delete=CASCADE: the Technicien rows that go with a deleted User. *)
CascadeOf(ts, u) == {k \in DOMAIN ts : ts[k].user_id = u}

(***************************************************************************)
(* User operations.                                                        *)
(***************************************************************************)
CreateUser(e, n, st, ac) ==
    /\ nextUserId <= MaxUsers
    /\ IF EmailTaken(users, nextUserId, e)
            \/ UsernameTaken(users, nextUserId, n)
         THEN /\ lastOp' = Op("create_user", "integrity_error", 0)
              /\ UNCHANGED <<users, nextUserId>>
         ELSE /\ users' = Upsert(users, nextUserId,
                     [email |-> e, username |-> n, is_staff |-> st,
                      is_active |-> ac, is_superuser |-> FALSE])
              /\ nextUserId' = nextUserId + 1
              /\ lastOp' = Op("create_user", "ok", nextUserId)
    /\ UNCHANGED <<techs, nextTechId, insts, nomvars>>

UpdateUser(u, row) ==
    /\ u \in DOMAIN users
    /\ row # users[u]
    /\ IF UserRowRefused(users, u, row)
         THEN /\ lastOp' = Op("update_user", "integrity_error", u)
              /\ UNCHANGED users
         ELSE /\ users' = Upsert(users, u, row)
              /\ lastOp' = Op("update_user", "ok", u)
    /\ UNCHANGED <<techs, nextUserId, nextTechId, insts, nomvars>>

DeleteUser(u) ==
    /\ u \in DOMAIN users
    /\ users' = Remove(users, {u})
    /\ techs' = Remove(techs, CascadeOf(techs, u))
    /\ lastOp' = [Op("delete_user", "ok", u) EXCEPT !.sel = CascadeOf(techs, u)]
    /\ UNCHANGED <<nextUserId, nextTechId, insts, nomvars>>

(***************************************************************************)
(* Technicien instances and Technicien.save.                               *)
(***************************************************************************)
(* Technicien(user=u, disponibilite=d): a new, unsaved instance (pk None,
   written 0) holding the User object it was given. *)
Instance(pk, o, d) ==
    [pk |-> pk, user |-> o, disponibilite |-> d, pc |-> "ready",
     was_staff |-> FALSE]

(* Request r is not between the two writes of a save of its own: it is free
   to build or load an instance, whatever the other requests are doing. *)
Idle(r) == insts[r].pc = "ready"

NewTechnicien(r, u, d) ==
    /\ Idle(r)
    /\ u \in DOMAIN users
    /\ nextTechId <= MaxTechs
    /\ insts' = [insts EXCEPT ![r] = Instance(0, UserObject(users, u), d)]
    /\ lastOp' = Op("new_technicien", "ok", u)
    /\ UNCHANGED <<users, techs, nextUserId, nextTechId, nomvars>>

(* The change form: the stored Technicien t is loaded together with a User
   object (get_queryset joins the owner; the form may pick another owner u)
   and its availability is set to d. *)
LoadTechnicien(r, t, u, d) ==
    /\ Idle(r)
    /\ t \in DOMAIN techs
    /\ u \in DOMAIN users
    /\ insts' = [insts EXCEPT ![r] = Instance(t, UserObject(users, u), d)]
    /\ lastOp' = Op("load_technicien", "ok", u)
    /\ UNCHANGED <<users, techs, nextUserId, nextTechId, nomvars>>

(* self.user.is_staff = True *)
PromotedUser(o) == [o EXCEPT !.is_staff = TRUE]

(* self.user.save(): the whole in-memory User is written to its row. *)
UsersAfterUserSave(us, o) == Upsert(us, o.id, RowOfUser(o))

(* The users table once super().save() has failed, or the process has died,
   after self.user.save() was committed: nothing undoes the first write. *)
UsersAfterFailedSave(us, o) == us

(* The primary key super().save() writes: a fresh one for an unsaved
   instance. *)
TechPk(i) == IF i.pk = 0 THEN nextTechId ELSE i.pk

(* The owner's stored staff flag (false when the row is gone). *)
StoredStaff(us, u) == u \in DOMAIN us /\ us[u].is_staff

SaveOp(o, res, u, r, was) == [ReqOp(o, res, u, r) EXCEPT !.was_staff = was]

(* Technicien.save up to self.user.save(): the staff flag is set on the
   in-memory owner and the owner is written, or the write is refused and
   the exception ends the save. *)
TechnicienSaveUser(r) ==
    /\ insts[r] # NoInstance
    /\ insts[r].pc = "ready"
    /\ TechPk(insts[r]) \in TechIds
    /\ LET owner == PromotedUser(insts[r].user)
           was == StoredStaff(users, owner.id)
       IN  IF UserRowRefused(users, owner.id, RowOfUser(owner))
             THEN /\ lastOp' = SaveOp("save", "user_integrity_error",
                                      owner.id, r, was)
                  /\ insts' = [insts EXCEPT ![r].user = owner]
                  /\ UNCHANGED users
             ELSE /\ users' = UsersAfterUserSave(users, owner)
                  /\ lastOp' = SaveOp("save_user", "ok", owner.id, r, was)
                  /\ insts' = [insts EXCEPT ![r].user = owner,
                                            ![r].pc = "user_saved",
                                            ![r].was_staff = was]
    /\ UNCHANGED <<techs, nextUserId, nextTechId, nomvars>>

(* The foreign key of Technicien.user: the owner's row is gone. *)
OwnerMissing(us, u) == u \notin DOMAIN us

(* Technicien.save from super().save(): the Technicien row is written, or
   the write is refused (its owner is gone, or has another Technicien) and
   the exception ends the save. *)
TechnicienSaveRow(r) ==
    /\ insts[r] # NoInstance
    /\ insts[r].pc = "user_saved"
    /\ LET owner == insts[r].user
           pk == TechPk(insts[r])
       IN  IF OwnerMissing(users, owner.id) \/ OwnerTaken(techs, pk, owner.id)
             THEN /\ users' = UsersAfterFailedSave(users, owner)
                  /\ lastOp' = SaveOp("save", "tech_integrity_error",
                                      owner.id, r, insts[r].was_staff)
                  /\ insts' = [insts EXCEPT ![r].pc = "ready",
                                            ![r].was_staff = FALSE]
                  /\ UNCHANGED <<techs, nextTechId>>
             ELSE /\ pk \in TechIds
                  /\ techs' = Upsert(techs, pk,
                       [user_id |-> owner.id,
                        disponibilite |-> insts[r].disponibilite])
                  /\ nextTechId' = IF insts[r].pk = 0 THEN nextTechId + 1
                                   ELSE nextTechId
                  /\ insts' = [insts EXCEPT ![r].pk = pk, ![r].pc = "ready",
                                            ![r].was_staff = FALSE]
                  /\ lastOp' = [SaveOp("save", "ok", owner.id, r,
                                       insts[r].was_staff)
                                  EXCEPT !.sel = {pk}]
                  /\ UNCHANGED users
    /\ UNCHANGED <<nextUserId, nomvars>>

(* The process of request r dies between self.user.save() and
   super().save(). *)
TechnicienSaveCrash(r) ==
    /\ insts[r] # NoInstance
    /\ insts[r].pc = "user_saved"
    /\ users' = UsersAfterFailedSave(users, insts[r].user)
    /\ lastOp' = SaveOp("save", "crash", insts[r].user.id, r,
                        insts[r].was_staff)
    /\ insts' = [insts EXCEPT ![r] = NoInstance]
    /\ UNCHANGED <<techs, nextUserId, nextTechId, nomvars>>

DeleteTechnicien(t) ==
    /\ t \in DOMAIN techs
    /\ techs' = Remove(techs, {t})
    /\ lastOp' = [Op("delete_technicien", "ok", techs[t].user_id)
                    EXCEPT !.sel = {t}]
    /\ UNCHANGED <<users, nextUserId, nextTechId, insts, nomvars>>

(***************************************************************************)
(* Admin: bulk actions and the profile indicator.                          *)
(***************************************************************************)
(* Mutant: the update loses its filter and sets every row. *)
UpdateEveryRow(ts, sel, val) ==
    [k \in DOMAIN ts |-> [ts[k] EXCEPT !.disponibilite = val]]

(* queryset.update(disponibilite=val) over the rows whose key is selected. *)
QuerysetUpdate(ts, sel, val) ==
    [k \in DOMAIN ts |->
        IF k \in sel THEN [ts[k] EXCEPT !.disponibilite = val] ELSE ts[k]]

(* Mutant: the count of the keys selected, stored or not. *)
SelectedCount(ts, sel) == Cardinality(sel)

(* The value queryset.update returns: the rows the query matched. *)
UpdatedCount(ts, sel) == Cardinality(sel \cap DOMAIN ts)

BulkOp(o, sel, after) ==
    [Op(o, "ok", 0) EXCEPT
        !.sel = sel,
        !.count = UpdatedCount(techs, sel),
        !.changed = Cardinality({k \in DOMAIN techs : after[k] # techs[k]}),
        !.repeated = (lastOp.op = o /\ lastOp.sel = sel)]

marquer_disponible(sel) ==
    /\ techs' = QuerysetUpdate(techs, sel, TRUE)
    /\ lastOp' = BulkOp("marquer_disponible", sel, techs')
    /\ UNCHANGED <<users, nextUserId, nextTechId, insts, nomvars>>

marquer_indisponible(sel) ==
    /\ techs' = QuerysetUpdate(techs, sel, FALSE)
    /\ lastOp' = BulkOp("marquer_indisponible", sel, techs')
    /\ UNCHANGED <<users, nextUserId, nextTechId, insts, nomvars>>

(* Mutant: the staff flag taken as the sign of a profile. *)
StaffAsProfile(ts, o) == o.is_staff

(* hasattr(obj, 'technicien_profile') on a User object of the change list:
   the reverse one-to-one lookup finds a row or raises. *)
has_technicien_profile(ts, o) == \E k \in DOMAIN ts : ts[k].user_id = o.id

(***************************************************************************)
(* Admin: the full-name column.  A CharField value is None or a string;    *)
(* a string is the sequence of the code points of its characters.          *)
(***************************************************************************)
None == [isNone |-> TRUE, chars |-> << >>]
Str(s) == [isNone |-> FALSE, chars |-> s]

(* The characters str.strip() removes (those str.isspace() accepts):
   U+0009..U+000D, U+001C..U+0020, U+0085, U+00A0, U+1680, U+2000..U+200A,
   U+2028, U+2029, U+202F, U+205F, U+3000. *)
Whitespace ==
    (9..13) \cup (28..32) \cup {133, 160, 5760} \cup (8192..8202)
        \cup {8232, 8233, 8239, 8287, 12288}

(* The characters names are built from: space, tab, EM SPACE and "J". *)
NameAlphabet == {32, 9, 8195, 74}
(* "Martin" *)
Martin == <<77, 97, 114, 116, 105, 110>>
(* "Jean" *)
Jean == <<74, 101, 97, 110>>

StringsUpTo(n) == UNION {[1..k -> NameAlphabet] : k \in 0..n}
Names == {None} \cup {Str(s) : s \in StringsUpTo(MaxNameLen) \cup {Martin, Jean}}

(* "Non défini" *)
NonDefini == <<78, 111, 110, 32, 100, 233, 102, 105, 110, 105>>

(* v or '' *)
OrEmpty(v) == IF v.isNone \/ v.chars = << >> THEN << >> ELSE v.chars

(* f"{obj.prenom or ''} {obj.nom or ''}" *)
FormatNom(o) == OrEmpty(o.prenom) \o <<32>> \o OrEmpty(o.nom)

RECURSIVE LStrip(_)
LStrip(s) ==
    IF s # << >> /\ Head(s) \in Whitespace THEN LStrip(Tail(s)) ELSE s

RECURSIVE RStrip(_)
RStrip(s) == IF s # << >> /\ s[Len(s)] \in Whitespace
               THEN RStrip(SubSeq(s, 1, Len(s) - 1)) ELSE s

(* Mutant: only leading whitespace is removed. *)
LStripOnly(s) == LStrip(s)

(* str.strip() *)
Strip(s) == RStrip(LStrip(s))

nom_complet(o) ==
    LET s == Strip(FormatNom(o)) IN IF s = << >> THEN NonDefini ELSE s

(* The change list renders the column for a Technicien not yet rendered. *)
RenderNomComplet ==
    /\ display = << >>
    /\ display' = nom_complet(obj)
    /\ UNCHANGED <<obj, dbvars>>

(***************************************************************************)
(* Specifications.                                                         *)
(***************************************************************************)
InitDb ==
    /\ users = << >>
    /\ techs = << >>
    /\ nextUserId = 1
    /\ nextTechId = 1
    /\ insts = [r \in Requests |-> NoInstance]
    /\ lastOp = NoOp

Init ==
    /\ InitDb
    /\ obj = [prenom |-> None, nom |-> None]
    /\ display = << >>

InitNom ==
    /\ InitDb
    /\ obj \in [prenom : Names, nom : Names]
    /\ display = << >>

(* The first address of EmailList no stored user holds. *)
FreeEmails == {i \in 1..Len(EmailList) : ~EmailTaken(users, 0, EmailList[i])}
FirstFreeEmail ==
    EmailList[CHOOSE i \in FreeEmails : \A j \in FreeEmails : i <= j]

(* The first username of UsernameList no stored user holds. *)
FreeUsernames ==
    {i \in 1..Len(UsernameList) : ~UsernameTaken(users, 0, UsernameList[i])}
FirstFreeUsername ==
    UsernameList[CHOOSE i \in FreeUsernames : \A j \in FreeUsernames : i <= j]

(* A user is created under a username no stored user holds. *)
CreateNamedUser(e, st, ac) ==
    FreeUsernames # {} /\ CreateUser(e, FirstFreeUsername, st, ac)

(* The rows an edit of user u can write that leave the listed parts alone. *)
SameEmail(u, row) == /\ row.email = users[u].email
                     /\ row.username = users[u].username

(* The staff flag of user u as the only thing an edit changes. *)
StaffEdit(u, row) == row = [users[u] EXCEPT !.is_staff = row.is_staff]

(* Spec: users are created with a fresh address, active and not superuser;
   their staff flag is edited; Techniciens are built, loaded (with any
   stored user as owner), saved and deleted; users are deleted. *)
Next ==
    \/ \E st \in BOOLEAN :
          FreeEmails # {} /\ CreateNamedUser(FirstFreeEmail, st, TRUE)
    \/ \E u \in UserIds, row \in UserRow :
          u \in DOMAIN users /\ StaffEdit(u, row) /\ UpdateUser(u, row)
    \/ \E u \in UserIds : DeleteUser(u)
    \/ \E r \in OneRequest, u \in UserIds : NewTechnicien(r, u, TRUE)
    \/ \E r \in OneRequest, t \in TechIds, u \in UserIds :
          LoadTechnicien(r, t, u, TRUE)
    \/ \E r \in OneRequest : TechnicienSaveUser(r)
    \/ \E r \in OneRequest : TechnicienSaveRow(r)
    \/ \E r \in OneRequest : TechnicienSaveCrash(r)
    \/ \E t \in TechIds : DeleteTechnicien(t)

Spec == Init /\ [][Next]_vars

(* SpecFlags: as Spec, with the active and superuser flags edited too. *)
NextFlags ==
    \/ \E st \in BOOLEAN, ac \in BOOLEAN :
          FreeEmails # {} /\ CreateNamedUser(FirstFreeEmail, st, ac)
    \/ \E u \in UserIds, row \in UserRow :
          u \in DOMAIN users /\ SameEmail(u, row) /\ UpdateUser(u, row)
    \/ \E u \in UserIds : DeleteUser(u)
    \/ \E r \in OneRequest, u \in UserIds : NewTechnicien(r, u, TRUE)
    \/ \E r \in OneRequest, t \in TechIds, u \in UserIds :
          LoadTechnicien(r, t, u, TRUE)
    \/ \E r \in OneRequest : TechnicienSaveUser(r)
    \/ \E r \in OneRequest : TechnicienSaveRow(r)
    \/ \E r \in OneRequest : TechnicienSaveCrash(r)
    \/ \E t \in TechIds : DeleteTechnicien(t)

SpecFlags == Init /\ [][NextFlags]_vars

(* SpecEmail: addresses are chosen and edited freely, the flags are not
   edited. *)
NextEmail ==
    \/ \E e \in Emails : CreateNamedUser(e, FALSE, TRUE)
    \/ \E u \in UserIds, e \in Emails :
          u \in DOMAIN users /\ UpdateUser(u, [users[u] EXCEPT !.email = e])
    \/ \E u \in UserIds : DeleteUser(u)
    \/ \E r \in OneRequest, u \in UserIds : NewTechnicien(r, u, TRUE)
    \/ \E r \in OneRequest, t \in TechIds, u \in UserIds :
          LoadTechnicien(r, t, u, TRUE)
    \/ \E r \in OneRequest : TechnicienSaveUser(r)
    \/ \E r \in OneRequest : TechnicienSaveRow(r)
    \/ \E r \in OneRequest : TechnicienSaveCrash(r)
    \/ \E t \in TechIds : DeleteTechnicien(t)

SpecEmail == Init /\ [][NextEmail]_vars

(* SpecBulk: the bulk actions over any selection of keys, next to saves of
   new Techniciens, deletions of Techniciens and edits of the staff flag. *)
NextBulk ==
    \/ FreeEmails # {} /\ CreateNamedUser(FirstFreeEmail, FALSE, TRUE)
    \/ \E u \in UserIds, row \in UserRow :
          u \in DOMAIN users /\ StaffEdit(u, row) /\ UpdateUser(u, row)
    \/ \E r \in OneRequest, u \in UserIds : NewTechnicien(r, u, TRUE)
    \/ \E r \in OneRequest : TechnicienSaveUser(r)
    \/ \E r \in OneRequest : TechnicienSaveRow(r)
    \/ \E t \in TechIds : DeleteTechnicien(t)
    \/ \E sel \in (SUBSET TechIds) \ {{}} : marquer_disponible(sel)
    \/ \E sel \in (SUBSET TechIds) \ {{}} : marquer_indisponible(sel)

SpecBulk == Init /\ [][NextBulk]_vars

(* SpecOverlap: two requests build, load and save Techniciens at the same
   time, so that the writes of one save fall between the writes of the
   other, next to edits of the staff flag. *)
NextOverlap ==
    \/ FreeEmails # {} /\ CreateNamedUser(FirstFreeEmail, FALSE, TRUE)
    \/ \E u \in UserIds, row \in UserRow :
          u \in DOMAIN users /\ StaffEdit(u, row) /\ UpdateUser(u, row)
    \/ \E r \in Requests, u \in UserIds : NewTechnicien(r, u, TRUE)
    \/ \E r \in Requests, t \in TechIds, u \in UserIds :
          LoadTechnicien(r, t, u, TRUE)
    \/ \E r \in Requests : TechnicienSaveUser(r)
    \/ \E r \in Requests : TechnicienSaveRow(r)
    \/ \E r \in Requests : TechnicienSaveCrash(r)

SpecOverlap == Init /\ [][NextOverlap]_vars

(* SpecNom: the full-name column over every pair of names. *)
NextNom == RenderNomComplet

SpecNom == InitNom /\ [][NextNom]_vars

(***************************************************************************)
(* Properties.                                                             *)
(***************************************************************************)
SaveFailedAfterUserWrite == {"tech_integrity_error", "crash"}

(* C1 as stated: when Technicien.save ends successfully, whether it
   inserted or updated and whatever the owner's staff flag was, the
   Technicien row is stored and the stored staff flag of the user it refers
   to is true. *)
C1_AsStated ==
    (lastOp.op = "save" /\ lastOp.result = "ok") =>
        \A t \in lastOp.sel :
            /\ t \in DOMAIN techs
            /\ techs[t].user_id = lastOp.uid
            /\ techs[t].user_id \in DOMAIN users
            /\ users[techs[t].user_id].is_staff

(* C2: no stored Technicien refers to a user that is not stored; right after
   a user is deleted neither it nor a Technicien of it is stored; right after
   a Technicien is deleted its owner is still stored. *)
C2_CascadeDelete ==
    /\ \A t \in DOMAIN techs : techs[t].user_id \in DOMAIN users
    /\ lastOp.op = "delete_user" =>
          /\ lastOp.uid \notin DOMAIN users
          /\ \A t \in DOMAIN techs : techs[t].user_id # lastOp.uid
          /\ \A t \in lastOp.sel : t \notin DOMAIN techs
    /\ lastOp.op = "delete_technicien" =>
          /\ lastOp.uid \in DOMAIN users
          /\ \A t \in lastOp.sel : t \notin DOMAIN techs

(* A user was deleted and a Technicien went with it. *)
C2_Witness == lastOp.op = "delete_user" /\ lastOp.sel # {}

(* C3: a bulk action that repeats the request before it (same action, same
   selection) changes no row, and the count every bulk action reports is the
   number of selected keys that are stored rows when it runs. *)
C3_BulkIdempotent ==
    lastOp.op \in {"marquer_disponible", "marquer_indisponible"} =>
        /\ lastOp.count = Cardinality({t \in lastOp.sel : t \in DOMAIN techs})
        /\ lastOp.repeated => lastOp.changed = 0

(* The same action run a second time on a selection holding a stored row and
   a key that is not stored: it reports the one stored row. *)
C3_Witness ==
    /\ lastOp.op = "marquer_indisponible"
    /\ lastOp.repeated
    /\ lastOp.count = 1
    /\ Cardinality(lastOp.sel) = 2

Present(v) == ~v.isNone /\ v.chars # << >>

OnlySpaces(s) == \A i \in 1..Len(s) : s[i] \in Whitespace

(* d is s without its leading and trailing whitespace. *)
IsTrimOf(d, s) ==
    /\ d = << >> \/ (d[1] \notin Whitespace /\ d[Len(d)] \notin Whitespace)
    /\ \E i \in 0..Len(s), j \in 0..Len(s) :
          /\ i + Len(d) + j = Len(s)
          /\ OnlySpaces(SubSeq(s, 1, i))
          /\ SubSeq(s, i + 1, i + Len(d)) = d
          /\ OnlySpaces(SubSeq(s, i + Len(d) + 1, Len(s)))

Rendered == display # << >>

(* C4 as stated: surname "Martin" without a given name displays "Martin";
   neither name displays the placeholder; both names display
   "{given} {surname}" trimmed. *)
C4_AsStated ==
    Rendered =>
        /\ (~Present(obj.prenom) /\ obj.nom = Str(Martin)) => display = Martin
        /\ (~Present(obj.prenom) /\ ~Present(obj.nom)) => display = NonDefini
        /\ (Present(obj.prenom) /\ Present(obj.nom)) =>
              IsTrimOf(display, obj.prenom.chars \o <<32>> \o obj.nom.chars)

(* C4 amended: as stated, but when both names are present the display is the
   trimmed "{given} {surname}" only if one of them has a character that is
   not whitespace; two names of whitespace alone display the placeholder. *)
C4_NomComplet ==
    Rendered =>
        /\ (~Present(obj.prenom) /\ obj.nom = Str(Martin)) => display = Martin
        /\ (~Present(obj.prenom) /\ ~Present(obj.nom)) => display = NonDefini
        /\ (Present(obj.prenom) /\ Present(obj.nom)) =>
              IF OnlySpaces(obj.prenom.chars) /\ OnlySpaces(obj.nom.chars)
                THEN display = NonDefini
                ELSE IsTrimOf(display,
                              obj.prenom.chars \o <<32>> \o obj.nom.chars)

(* Both names present, with whitespace around them that the display lost. *)
C4_Witness ==
    /\ Rendered
    /\ Present(obj.prenom) /\ Present(obj.nom)
    /\ obj.prenom.chars[1] = 9
    /\ obj.nom.chars[Len(obj.nom.chars)] = 8195
    /\ display # NonDefini
    /\ Len(display) < Len(obj.prenom.chars) + 1 + Len(obj.nom.chars)

UniqueEmails ==
    \A u1 \in DOMAIN users, u2 \in DOMAIN users :
        u1 # u2 => users[u1].email # users[u2].email

(* C5: no two stored users ever have the same email; a creation that fails
   stores nothing, and a creation that succeeds stores an email no user
   stored before it had. *)
C5_EmailUnique ==
    /\ []UniqueEmails
    /\ [][lastOp'.op = "create_user" =>
            IF lastOp'.result = "ok"
              THEN /\ lastOp'.uid \notin DOMAIN users
                   /\ \A k \in DOMAIN users :
                         users[k].email # users'[lastOp'.uid].email
              ELSE users' = users /\ techs' = techs]_vars

(* A creation was refused for its email while a user is stored. *)
C5_Witness ==
    /\ lastOp.op = "create_user"
    /\ lastOp.result = "integrity_error"
    /\ DOMAIN users # {}

HasProfile(u) == has_technicien_profile(techs, UserObject(users, u))

(* C6: the indicator is false for a user just created, true for the owner
   right after a successful save of a Technicien, and false again for the
   owner right after its Technicien is deleted. *)
C6_HasProfile ==
    /\ (lastOp.op = "create_user" /\ lastOp.result = "ok") =>
          ~HasProfile(lastOp.uid)
    /\ (lastOp.op = "save" /\ lastOp.result = "ok") => HasProfile(lastOp.uid)
    /\ lastOp.op = "delete_technicien" => ~HasProfile(lastOp.uid)

(* A Technicien was just attached to a user, next to a stored user that has
   none. *)
C6_Witness ==
    /\ lastOp.op = "save" /\ lastOp.result = "ok"
    /\ HasProfile(lastOp.uid)
    /\ \E u \in DOMAIN users : ~HasProfile(u)

(* C7 as stated: when the Technicien write fails, or the process dies,
   after the user write succeeded, the owner is left stored with the staff
   flag true and no stored Technicien refers to it. *)
C7_AsStated ==
    (lastOp.op = "save" /\ lastOp.result \in SaveFailedAfterUserWrite) =>
        /\ lastOp.uid \in DOMAIN users
        /\ users[lastOp.uid].is_staff
        /\ ~HasProfile(lastOp.uid)

IsBulk(o) == o \in {"marquer_disponible", "marquer_indisponible"}

(* C8: a bulk action sets the availability of every selected stored
   Technicien to its value and changes nothing else: the other rows, the
   owners of all rows and the whole users table stay as they were. *)
C8_BulkFrame ==
    [][IsBulk(lastOp'.op) =>
        /\ DOMAIN techs' = DOMAIN techs
        /\ \A t \in DOMAIN techs :
              /\ techs'[t].user_id = techs[t].user_id
              /\ t \in lastOp'.sel =>
                    techs'[t].disponibilite =
                        (lastOp'.op = "marquer_disponible")
              /\ t \notin lastOp'.sel => techs'[t] = techs[t]
        /\ users' = users]_vars

(* "mark unavailable" ran on one of two stored Techniciens; the selected
   one's owner is not staff and the other one is still available. *)
C8_Witness ==
    /\ lastOp.op = "marquer_indisponible"
    /\ lastOp.changed = 1
    /\ \E t \in DOMAIN techs :
          t \in lastOp.sel /\ ~users[techs[t].user_id].is_staff
    /\ \E t \in DOMAIN techs : t \notin lastOp.sel /\ techs[t].disponibilite

(* Every stored Technicien refers to a stored user, and no two to the same. *)
OneToOne ==
    /\ \A t \in DOMAIN techs : techs[t].user_id \in DOMAIN users
    /\ \A t1 \in DOMAIN techs, t2 \in DOMAIN techs :
          t1 # t2 => techs[t1].user_id # techs[t2].user_id

(* C9 as stated: the relation stays one-to-one, and a save that attaches a
   second Technicien to a user that has one fails and stores nothing: when
   it fails right after its user write, the owner's stored staff flag is
   what it was before the save. *)
C9_AsStated ==
    /\ []OneToOne
    /\ [][(/\ lastOp.op = "save_user"
            /\ lastOp'.op = "save"
            /\ lastOp'.req = lastOp.req
            /\ lastOp'.result = "tech_integrity_error"
            /\ OwnerTaken(techs, TechPk(insts[lastOp.req]), lastOp'.uid)) =>
              /\ techs' = techs
              /\ StoredStaff(users', lastOp'.uid) = lastOp'.was_staff]_vars

(* C10 as stated: the only change a save makes to the users table is the
   owner's staff flag set to true. *)
C10_AsStated ==
    [][lastOp'.op \in {"save_user", "save"} =>
        /\ DOMAIN users' = DOMAIN users
        /\ \A u \in DOMAIN users :
              /\ users'[u].is_active = users[u].is_active
              /\ users'[u].is_superuser = users[u].is_superuser
              /\ u # lastOp'.uid => users'[u] = users[u]]_vars
====
